---- MODULE Spec2Model ----
(***************************************************************************)
(* A model of the chat front-end: the Chat component (the conversation     *)
(* controller: message list, input text, busy flag and its /api/chat       *)
(* requests) and the Source component (one card per source reference, with *)
(* its own /api/sources request).                                          *)
(*                                                                         *)
(* JavaScript values are tagged records: [t |-> "undefined"],              *)
(* [t |-> "null"], [t |-> "string", v |-> s], [t |-> "array", v |-> seq]   *)
(* and [t |-> "object", ...fields].  Strings that the code types as string *)
(* (Message.content, Message.id, the input text) are plain TLA+ strings.   *)
(***************************************************************************)
EXTENDS Integers, Sequences, FiniteSets

VARIABLES
    messages,   \* Chat: useState<Message[]>([])
    input,      \* Chat: useState("")
    isLoading,  \* Chat: useState(false)
    inflight,   \* the /api/chat requests issued and not yet settled (their bodies)
    requests,   \* history: how many /api/chat requests were issued so far
    now,        \* the millisecond clock read by Date.now()
    last,       \* history: the handler that ran last, with its inputs
    cards       \* the Source instances: props, state and request of each

vars == <<messages, input, isLoading, inflight, requests, now, last, cards>>

chatVars == <<messages, input, isLoading, inflight, requests, now>>

----------------------------------------------------------------------------
(* Bounds of the model. *)

MaxSubmits == 2

FirstNow == 9

MaxNow == 11

NumCards == 2

----------------------------------------------------------------------------
(* JavaScript values. *)

Undefined == [t |-> "undefined"]

Null == [t |-> "null"]

Str(s) == [t |-> "string", v |-> s]

Arr(a) == [t |-> "array", v |-> a]

\* JavaScript truthiness of the values the model uses: undefined, null and
\* the empty string are falsy; every array and object is truthy.
Truthy(x) ==
    CASE x.t = "undefined" -> FALSE
      [] x.t = "null"      -> FALSE
      [] x.t = "string"    -> x.v # ""
      [] OTHER             -> TRUE

\* a || b
Or(a, b) == IF Truthy(a) THEN a ELSE b

----------------------------------------------------------------------------
(* String.prototype.trim and Number.prototype.toString. *)

IsSpace(c) == c \in {" ", "\t", "\n"}

RECURSIVE TrimStart(_)
TrimStart(s) ==
    IF s = "" THEN ""
    ELSE IF IsSpace(Head(s)) THEN TrimStart(Tail(s)) ELSE s

RECURSIVE TrimEnd(_)
TrimEnd(s) ==
    IF s = "" THEN ""
    ELSE IF IsSpace(SubSeq(s, Len(s), Len(s)))
         THEN TrimEnd(SubSeq(s, 1, Len(s) - 1))
         ELSE s

Trim(s) == TrimEnd(TrimStart(s))

Digits == <<"0", "1", "2", "3", "4", "5", "6", "7", "8", "9">>

RECURSIVE NumToString(_)
NumToString(n) ==
    IF n < 10 THEN Digits[n + 1]
    ELSE NumToString(n \div 10) \o Digits[(n % 10) + 1]

----------------------------------------------------------------------------
(* The inputs of the model. *)

\* what the user can type into the input box
Texts == {"", " ", "a", " b "}

\* source references a backend reply can carry
X1 == [object_id |-> "x1", collection |-> "PDFchunks1"]

D2 == [object_id |-> "d2", collection |-> "Documents"]

ResponseValues == {Undefined, Null, Str(""), Str("Paris is the capital.")}

SourcesValues == {Undefined, Null, Arr(<<>>), Arr(<<X1, D2>>)}

\* the bodies response.json() can resolve to: JSON null, or an object with
\* optional response and sources fields
ChatBodies ==
    {Null} \cup
    {[t |-> "object", response |-> r, sources |-> s] :
        r \in ResponseValues, s \in SourcesValues}

\* how a /api/chat request can settle
ChatOutcomes ==
    {[kind |-> "network_error"], [kind |-> "http_error"],
     [kind |-> "unreadable_body"]} \cup
    {[kind |-> "body", data |-> d] : d \in ChatBodies}

----------------------------------------------------------------------------
(* Chat.handleSubmit *)

Fallback == "I received your message but got no answer."

Apology == "Sorry, something went wrong. Please try again."

\* if (!input.trim() || isLoading) return;
\* (SubmitGuardNoTrim: the same guard on the untrimmed text)
SubmitGuardNoTrim(text, busy) == text = "" \/ busy

SubmitGuard(text, busy) == Trim(text) = "" \/ busy

UserMessage(text, t) ==
    [id |-> NumToString(t), role |-> "user", content |-> Trim(text),
     sources |-> Undefined]

\* newMessages.map(msg => ({ role: msg.role, content: msg.content }))
\* (RequestBodyStale: the body without the message just appended)
RequestBodyStale(msgs) ==
    [i \in 1..(Len(msgs) - 1) |->
        [role |-> msgs[i].role, content |-> msgs[i].content]]

RequestBody(msgs) ==
    [i \in 1..Len(msgs) |-> [role |-> msgs[i].role, content |-> msgs[i].content]]

\* setIsLoading(true)
\* (LoadingAfterSubmitKept: the flag left as it was)
LoadingAfterSubmitKept(busy) == busy

LoadingAfterSubmit(busy) == TRUE

\* whether the try block throws: fetch rejects, the status is not ok,
\* response.json() rejects, or data is null and data.response is a TypeError
Throws(o) ==
    \/ o.kind \in {"network_error", "http_error", "unreadable_body"}
    \/ o.kind = "body" /\ o.data.t # "object"

\* the assistant message of a reply
\* (AssistantMessageReversed: the same with the sources in reverse order)
AssistantMessageReversed(data, t) ==
    LET s == Or(data.sources, Arr(<<>>))
    IN [id |-> NumToString(t + 1), role |-> "assistant",
        content |-> Or(data.response, Str(Fallback)).v,
        sources |-> Arr([i \in 1..Len(s.v) |-> s.v[Len(s.v) + 1 - i]])]

AssistantMessage(data, t) ==
    [id |-> NumToString(t + 1), role |-> "assistant",
     content |-> Or(data.response, Str(Fallback)).v,
     sources |-> Or(data.sources, Arr(<<>>))]

\* the message of the error the try block throws: the Error of line 64, or
\* the runtime's TypeError / SyntaxError
ErrorText(o) ==
    CASE o.kind = "network_error"   -> "TypeError: Failed to fetch"
      [] o.kind = "http_error"      -> "Failed to fetch response"
      [] o.kind = "unreadable_body" -> "SyntaxError: Unexpected token"
      [] OTHER                      -> "TypeError: data is null"

\* the assistant message of a failure
\* (ErrorMessageRaw: the same with the error's own text as content)
ErrorMessageRaw(o, t) ==
    [id |-> NumToString(t + 1), role |-> "assistant",
     content |-> ErrorText(o), sources |-> Undefined]

ErrorMessage(o, t) ==
    [id |-> NumToString(t + 1), role |-> "assistant",
     content |-> Apology, sources |-> Undefined]

\* setMessages((prev) => [...prev, message])
\* (AppendNothing: prev returned as it is; AppendReplacingLast: the last
\* message of prev overwritten)
AppendNothing(prev, m) == prev

AppendReplacingLast(prev, m) ==
    Append(SubSeq(prev, 1, Len(prev) - 1), m)

AppendMessage(prev, m) == Append(prev, m)

\* finally { setIsLoading(false); }
\* (LoadingAfterSettleOnlyOnSuccess: the flag cleared in the try block only)
LoadingAfterSettleOnlyOnSuccess(o, busy) == IF Throws(o) THEN busy ELSE FALSE

LoadingAfterSettle(o, busy) == FALSE

\* the disabled attributes of the input and of the submit button
InputDisabled == isLoading

ButtonDisabled == Trim(input) = "" \/ isLoading

NumUserMessages == Cardinality({i \in 1..Len(messages) : messages[i].role = "user"})

\* onChange={(e) => setInput(e.target.value)} of an input that is
\* disabled={isLoading}
OnChange(v) ==
    /\ ~InputDisabled
    /\ input' = v
    /\ last' = [op |-> "change"]
    /\ UNCHANGED <<messages, isLoading, inflight, requests, now, cards>>

\* handleSubmit up to its await: the early return of the guard, or the new
\* user message, the cleared input, the busy flag and the fetch
HandleSubmit ==
    /\ SubmitGuard(input, isLoading) \/ NumUserMessages < MaxSubmits
    /\ last' = [op |-> "submit", accepted |-> ~SubmitGuard(input, isLoading),
                text |-> input, busy |-> isLoading, n |-> Len(messages)]
    /\ IF SubmitGuard(input, isLoading)
       THEN UNCHANGED <<messages, input, isLoading, inflight, requests>>
       ELSE LET userMessage == UserMessage(input, now)
                newMessages == Append(messages, userMessage)
            IN /\ messages' = newMessages
               /\ input' = ""
               /\ isLoading' = LoadingAfterSubmit(isLoading)
               /\ inflight' = Append(inflight, RequestBody(newMessages))
               /\ requests' = requests + 1
    /\ UNCHANGED <<now, cards>>

\* handleSubmit from its await on, when request i settles as o
Settle(i, o) ==
    /\ i \in 1..Len(inflight)
    /\ messages' = AppendMessage(messages,
                       IF Throws(o) THEN ErrorMessage(o, now)
                       ELSE AssistantMessage(o.data, now))
    /\ isLoading' = LoadingAfterSettle(o, isLoading)
    /\ inflight' = [j \in 1..(Len(inflight) - 1) |->
                       IF j < i THEN inflight[j] ELSE inflight[j + 1]]
    /\ last' = [op |-> "settle", outcome |-> o, n |-> Len(messages)]
    /\ UNCHANGED <<input, requests, now, cards>>

\* the millisecond clock advances
Tick ==
    /\ now < MaxNow
    /\ now' = now + 1
    /\ last' = [op |-> "tick"]
    /\ UNCHANGED <<messages, input, isLoading, inflight, requests, cards>>

----------------------------------------------------------------------------
(* Source *)

\* what response.json() of /api/sources can resolve to: JSON null or a record
SourceResults ==
    {Null,
     [t |-> "object", pdf_title |-> "T", pdf_date |-> "2024-01-01", chunk_text |-> "C"],
     [t |-> "object", title |-> "T2", date |-> "2024-02-02", abstract |-> "A"]}

\* how a /api/sources request can settle
SourceOutcomes ==
    {[kind |-> "network_error"], [kind |-> "http_error"],
     [kind |-> "unreadable_body"]} \cup
    {[kind |-> "body", data |-> d] : d \in SourceResults}

SourceRefs == {X1, D2, [object_id |-> "x1", collection |-> "Documents"]}

\* useState(null), useState(true), useState(false) of a new instance, whose
\* effect has not run yet
NewCard(ref) ==
    [objectId |-> ref.object_id, collection |-> ref.collection,
     data |-> Null, loading |-> TRUE, error |-> FALSE,
     request |-> "none", fetches |-> 0, outcome |-> [kind |-> "none"]]

\* whether the try block of fetchSource throws
SourceThrows(o) == o.kind \in {"network_error", "http_error", "unreadable_body"}

\* if (loading) ... if (error || !data) ... else the card
\* (RenderStateIgnoringData: the same without the !data test)
RenderStateIgnoringData(c) ==
    IF c.loading THEN "loading"
    ELSE IF c.error THEN "error"
    ELSE "loaded"

RenderState(c) ==
    IF c.loading THEN "loading"
    ELSE IF c.error \/ ~Truthy(c.data) THEN "error"
    ELSE "loaded"

\* the effect of the instance runs once after mount: fetchSource() is called
\* and suspends at its fetch
SourceMount(i) ==
    /\ cards[i].request = "none"
    /\ cards' = [cards EXCEPT ![i].request = "pending",
                              ![i].fetches = cards[i].fetches + 1]
    /\ UNCHANGED <<chatVars, last>>

\* fetchSource from its await on, when the request settles as o
SourceSettle(i, o) ==
    /\ cards[i].request = "pending"
    /\ cards' = [cards EXCEPT
                    ![i].data = IF SourceThrows(o) THEN cards[i].data ELSE o.data,
                    ![i].error = IF SourceThrows(o) THEN TRUE ELSE cards[i].error,
                    ![i].loading = FALSE,
                    ![i].request = "settled",
                    ![i].outcome = o]
    /\ UNCHANGED <<chatVars, last>>

\* the Source instances of one assistant message, just constructed
SourceInit ==
    /\ messages = <<>>
    /\ input = ""
    /\ isLoading = FALSE
    /\ inflight = <<>>
    /\ requests = 0
    /\ now = FirstNow
    /\ last = [op |-> "init"]
    /\ cards \in [1..NumCards -> {NewCard(r) : r \in SourceRefs}]

SourceNext ==
    \/ \E i \in 1..NumCards : SourceMount(i)
    \/ \E i \in 1..NumCards, o \in SourceOutcomes : SourceSettle(i, o)

SourceSpec == SourceInit /\ [][SourceNext]_vars

----------------------------------------------------------------------------
(* The conversation controller as a whole. *)

Init ==
    /\ messages = <<>>
    /\ input = ""
    /\ isLoading = FALSE
    /\ inflight = <<>>
    /\ requests = 0
    /\ now = FirstNow
    /\ last = [op |-> "init"]
    /\ cards = <<>>

Next ==
    \/ \E v \in Texts : OnChange(v)
    \/ HandleSubmit
    \/ \E i \in 1..Len(inflight), o \in ChatOutcomes : Settle(i, o)
    \/ Tick

Spec == Init /\ [][Next]_vars

\* every /api/chat request the runtime issued settles
FairSpec == Spec /\ WF_vars(\E i \in 1..Len(inflight), o \in ChatOutcomes : Settle(i, o))

----------------------------------------------------------------------------
(* The properties. *)

IsPrefix(s, t) == Len(s) <= Len(t) /\ \A i \in 1..Len(s) : t[i] = s[i]

LastMessage == messages[Len(messages)]

\* the history a request made from message list msgs must carry
History(msgs) ==
    [i \in 1..Len(msgs) |-> [role |-> msgs[i].role, content |-> msgs[i].content]]

\* C1: a submit of non-empty text made while no request is in flight appends
\* exactly one user message and is eventually followed by exactly one
\* assistant message, so the list grows by exactly 2 per accepted submit and
\* by nothing else.
C1_Shape ==
    /\ Len(messages) = 2 * requests - Len(inflight)
    /\ \A i \in 1..Len(messages) :
          messages[i].role = IF i % 2 = 1 THEN "user" ELSE "assistant"
    /\ (last.op = "submit" /\ Trim(last.text) # "" /\ ~last.busy) => last.accepted

C1_Step ==
    \/ messages' = messages
    \/ /\ last'.op = "submit" /\ last'.accepted
       /\ requests' = requests + 1
       /\ Len(messages') = Len(messages) + 1
       /\ messages'[Len(messages')].role = "user"
    \/ /\ last'.op = "settle"
       /\ requests' = requests
       /\ Len(messages') = Len(messages) + 1
       /\ messages'[Len(messages')].role = "assistant"

C2_RejectedSubmitIsNoOp ==
    [][(last'.op = "submit" /\ (Trim(input) = "" \/ isLoading))
          => /\ ~last'.accepted
             /\ UNCHANGED <<messages, input, isLoading, inflight, requests>>]_vars

\* a submit was made while a request was in flight, and was rejected
C2_Witness ==
    /\ last.op = "submit"
    /\ last.busy
    /\ ~last.accepted
    /\ Len(inflight) = 1

\* C3: at most one /api/chat request is outstanding; the busy flag is set
\* while one is; the input and the submit button are disabled while it is set.
C3_OneOutstandingRequest ==
    /\ Len(inflight) <= 1
    /\ Len(inflight) = 1 => isLoading
    /\ isLoading => InputDisabled /\ ButtonDisabled

\* the second request is outstanding
C3_Witness ==
    /\ Len(inflight) = 1
    /\ requests = 2
    /\ isLoading

\* C4: the message list is append-only: across every step the old list is a
\* prefix of the new one.
C4_AppendOnly == [][IsPrefix(messages, messages')]_vars

\* a reply was appended behind three earlier messages
C4_Witness ==
    /\ last.op = "settle"
    /\ last.n = 3
    /\ Len(messages) = 4

\* C5: when the chat request completes (with a reply, a network failure, a
\* non-success status or an unreadable body) the busy flag is false; it is
\* false whenever no request is outstanding, and a submit of non-empty text
\* is then accepted.
C5_BusyCleared ==
    /\ last.op = "settle" => ~isLoading
    /\ inflight = <<>> => ~isLoading
    /\ (inflight = <<>> /\ Trim(input) # "") => ~SubmitGuard(input, isLoading)
    /\ (last.op = "submit" /\ Trim(last.text) # "" /\ last.n % 2 = 0)
          => last.accepted

\* after a request that failed, the next submit was accepted
C5_Witness ==
    /\ last.op = "submit"
    /\ last.accepted
    /\ Len(messages) = 3
    /\ messages[2].content = Apology

\* C6: when the chat request fails with a network error or a non-success
\* status, exactly one assistant message is appended, with the fixed apology
\* as content and no sources; the text of the error is in no message.
C6_FailureAppendsApology ==
    /\ (last.op = "settle" /\ last.outcome.kind \in {"network_error", "http_error"})
          => /\ Len(messages) = last.n + 1
             /\ LastMessage.role = "assistant"
             /\ LastMessage.content = Apology
             /\ LastMessage.sources = Undefined
             /\ ~isLoading
    /\ \A i \in 1..Len(messages), o \in ChatOutcomes :
          messages[i].content # ErrorText(o)

\* a request failed with a non-success status
C6_Witness ==
    /\ last.op = "settle"
    /\ last.outcome.kind = "http_error"
    /\ Len(messages) = 2

\* a field of a body that is absent (a JSON null is read as absent too)
FieldAbsent(d, f) == d[f].t \in {"undefined", "null"}

\* C7 as stated: on success the content is the response field, or the
\* placeholder if the field is absent; the sources are the sources field, or
\* the empty sequence if it is absent.
C7_Original ==
    (last.op = "settle" /\ last.outcome.kind = "body"
        /\ last.outcome.data.t = "object")
       => LET d == last.outcome.data
          IN /\ Len(messages) = last.n + 1
             /\ LastMessage.role = "assistant"
             /\ LastMessage.content =
                   (IF FieldAbsent(d, "response") THEN Fallback ELSE d.response.v)
             /\ LastMessage.sources =
                   (IF FieldAbsent(d, "sources") THEN Arr(<<>>) ELSE d.sources)

\* C7 as amended: on success with a JSON object as body, the content is the
\* response field if that is a non-empty string, and the placeholder if it is
\* absent, null or empty; the sources are the sources field in the same
\* order if it is an array, and the empty sequence if it is absent or null.
C7_SuccessAppendsReply ==
    (last.op = "settle" /\ last.outcome.kind = "body"
        /\ last.outcome.data.t = "object")
       => LET d == last.outcome.data
          IN /\ Len(messages) = last.n + 1
             /\ LastMessage.role = "assistant"
             /\ LastMessage.content =
                   (IF d.response.t = "string" /\ d.response.v # ""
                    THEN d.response.v ELSE Fallback)
             /\ LastMessage.sources =
                   (IF d.sources.t = "array" THEN d.sources ELSE Arr(<<>>))

\* a reply with a text and two sources was appended
C7_Witness ==
    /\ last.op = "settle"
    /\ last.outcome.kind = "body"
    /\ last.outcome.data.t = "object"
    /\ LastMessage.content = "Paris is the capital."
    /\ LastMessage.sources = Arr(<<X1, D2>>)

\* C8: every accepted submit issues exactly one /api/chat request, whose body
\* is the {role, content} pairs of the whole message list as it stands after
\* the new user message is appended, in order, the new user message last.
C8_FullHistorySent ==
    /\ requests = NumUserMessages
    /\ \A k \in 1..Len(inflight) : inflight[k] = History(messages)
    /\ (last.op = "submit" /\ last.accepted)
          => /\ Len(inflight) = 1
             /\ Len(inflight[1]) = last.n + 1
             /\ inflight[1][last.n + 1] =
                   [role |-> "user", content |-> Trim(last.text)]

\* the second request, carrying the first exchange and the new user message
C8_Witness ==
    /\ last.op = "submit"
    /\ last.accepted
    /\ Len(inflight) = 1
    /\ Len(inflight[1]) = 3
    /\ inflight[1][2].role = "assistant"

\* whether a settled /api/sources request left no result
NoResult(o) == o.kind = "unreadable_body" \/ (o.kind = "body" /\ o.data = Null)

\* C9: every Source instance is in one of the states loading, error or
\* loaded; it is loading until its one fetch settles, then error after a
\* network failure, a non-success status or an absent result, and loaded
\* otherwise; it fetches at most once.
C9_SourceStates ==
    \A i \in 1..NumCards :
       LET c == cards[i]
       IN /\ RenderState(c) \in {"loading", "error", "loaded"}
          /\ c.fetches <= 1
          /\ c.request = "none" => (c.fetches = 0 /\ RenderState(c) = "loading")
          /\ c.request = "pending" => (c.fetches = 1 /\ RenderState(c) = "loading")
          /\ c.request = "settled" =>
                /\ c.fetches = 1
                /\ RenderState(c) =
                      (IF c.outcome.kind \in {"network_error", "http_error"}
                          \/ NoResult(c.outcome)
                       THEN "error" ELSE "loaded")

\* one instance failed with an absent result while its sibling loaded
C9_Witness ==
    /\ cards[1].request = "settled"
    /\ cards[1].outcome = [kind |-> "body", data |-> Null]
    /\ RenderState(cards[1]) = "error"
    /\ RenderState(cards[2]) = "loaded"

\* C10: no two messages of the list have the same id.
C10_UniqueIds ==
    \A i, j \in 1..Len(messages) : i # j => messages[i].id # messages[j].id

====
